---------------------------- MODULE Spec2Model ----------------------------
(***************************************************************************)
(* Model of the resume-fit backend (src/server.js).                        *)
(*                                                                         *)
(* src/server.js holds two server variants: variant 1 (lines 1-224) has no *)
(* access policy, variant 2 (lines 226-433) puts a shared-secret check and *)
(* a rate limiter in front of the same three routes.                       *)
(*                                                                         *)
(* Two specifications:                                                     *)
(*   Spec          the HTTP request flow: access policy, the three routes, *)
(*                 the two suspension points (pdf extraction, completion). *)
(*   SpecValidate  the decode/validate steps of both tasks applied to a    *)
(*                 large family of completion contents.                    *)
(*                                                                         *)
(* Spec follows one request at a time from its arrival to its response;    *)
(* the only state that outlives a request is the rate limiter's counter.   *)
(*                                                                         *)
(* Representation.  A JavaScript string is a sequence of one-character     *)
(* strings.  A JavaScript value is a record [t, n, s, a] where t is its    *)
(* type tag, n a number payload, s a string payload and a an array payload *)
(* (for an object: its entries [key, val] in source order).  Finite        *)
(* numbers are counted in halves (n = 9 is 4.5), which is the granularity  *)
(* the scoring prompt allows.                                              *)
(***************************************************************************)
EXTENDS Integers, Sequences, FiniteSets, TLC

(***************************************************************************)
(* JavaScript values                                                       *)
(***************************************************************************)
V(t, n, s, a) == [t |-> t, n |-> n, s |-> s, a |-> a]

Undefined == V("undefined", 0, <<>>, <<>>)
Null      == V("null", 0, <<>>, <<>>)
Bool(b)   == V("boolean", IF b THEN 1 ELSE 0, <<>>, <<>>)
\* a finite number, given in halves: Num(9) is 4.5
Num(h)    == V("number", h, <<>>, <<>>)
\* the number of halves in the integer k
Halves(k) == 2 * k
\* +Infinity / -Infinity: what JSON.parse yields for 1e999 / -1e999
Inf(sign) == V("infinity", sign, <<>>, <<>>)
NaN       == V("nan", 0, <<>>, <<>>)
Str(cs)   == V("string", 0, cs, <<>>)
Arr(xs)   == V("array", 0, <<>>, xs)
Entry(k, v) == [key |-> k, val |-> v]
Obj(es)   == V("object", 0, <<>>, es)

\* the marker of a raised exception in the result of an operator that can throw
Thrown(name) == V("throw", 0, <<name>>, <<>>)
IsThrown(v)  == v.t = "throw"

WS == {" ", "\n", "\t"}

\* String.prototype.trim
RECURSIVE TrimLeft(_)
TrimLeft(cs) ==
    IF cs # <<>> /\ Head(cs) \in WS THEN TrimLeft(Tail(cs)) ELSE cs

RECURSIVE TrimRight(_)
TrimRight(cs) ==
    IF cs # <<>> /\ cs[Len(cs)] \in WS
    THEN TrimRight(SubSeq(cs, 1, Len(cs) - 1))
    ELSE cs

trim(cs) == TrimRight(TrimLeft(cs))

\* String.prototype.replace(/\s+/g, " ")
RECURSIVE CollapseWs(_)
CollapseWs(cs) ==
    IF cs = <<>> THEN <<>>
    ELSE IF Head(cs) \in WS
         THEN <<" ">> \o CollapseWs(TrimLeft(cs))
         ELSE <<Head(cs)>> \o CollapseWs(Tail(cs))

\* Array.prototype.slice(0, k)
slice(xs, k) == SubSeq(xs, 1, IF Len(xs) < k THEN Len(xs) ELSE k)

\* JavaScript truthiness (ToBoolean)
Truthy(v) ==
    CASE v.t \in {"undefined", "null", "nan"} -> FALSE
      [] v.t = "boolean" -> v.n = 1
      [] v.t = "number"  -> v.n # 0
      [] v.t = "string"  -> v.s # <<>>
      [] OTHER -> TRUE

\* x || y
OrElse(x, y) == IF Truthy(x) THEN x ELSE y


(***************************************************************************)
(* String(v) and Number(v)                                                 *)
(***************************************************************************)
Digit(d) == CASE d = 0 -> "0" [] d = 1 -> "1" [] d = 2 -> "2" [] d = 3 -> "3"
              [] d = 4 -> "4" [] d = 5 -> "5" [] d = 6 -> "6" [] d = 7 -> "7"
              [] d = 8 -> "8" [] d = 9 -> "9"

DigitChars == {"0", "1", "2", "3", "4", "5", "6", "7", "8", "9"}

DigitValue(c) == CHOOSE d \in 0..9 : Digit(d) = c

\* the decimal digits of a natural number
RECURSIVE Digits(_)
Digits(k) == IF k < 10 THEN <<Digit(k)>> ELSE Digits(k \div 10) \o <<Digit(k % 10)>>

\* Number.prototype.toString of a finite number given in halves
NumToString(h) ==
    LET m == IF h < 0 THEN 0 - h ELSE h
    IN  (IF h < 0 THEN <<"-">> ELSE <<>>)
          \o Digits(m \div 2)
          \o (IF m % 2 = 1 THEN <<".", "5">> ELSE <<>>)

\* does the object own a property of that name
HasOwn(v, key) == \E i \in 1..Len(v.a) : v.a[i].key = key

\* Array.prototype.join(",") over already converted elements
RECURSIVE JoinComma(_)
JoinComma(ss) ==
    IF ss = <<>> THEN <<>>
    ELSE IF Len(ss) = 1 THEN ss[1]
    ELSE ss[1] \o <<",">> \o JoinComma(Tail(ss))

\* String(v): a value of type string, or Thrown("TypeError").  An object
\* decoded from JSON that owns a "toString" property has no callable
\* toString and an Object.prototype.valueOf that returns the object itself,
\* so OrdinaryToPrimitive throws.
RECURSIVE String(_)
String(v) ==
    CASE v.t = "undefined" -> Str(<<"u", "n", "d", "e", "f", "i", "n", "e", "d">>)
      [] v.t = "null"      -> Str(<<"n", "u", "l", "l">>)
      [] v.t = "boolean"   -> Str(IF v.n = 1 THEN <<"t", "r", "u", "e">> ELSE <<"f", "a", "l", "s", "e">>)
      [] v.t = "number"    -> Str(NumToString(v.n))
      [] v.t = "infinity"  -> Str((IF v.n < 0 THEN <<"-">> ELSE <<>>) \o <<"I", "n", "f", "i", "n", "i", "t", "y">>)
      [] v.t = "nan"       -> Str(<<"N", "a", "N">>)
      [] v.t = "string"    -> v
      [] v.t = "array"     ->
            LET parts == [i \in 1..Len(v.a) |->
                            IF v.a[i].t \in {"null", "undefined"}
                            THEN Str(<<>>) ELSE String(v.a[i])]
            IN  IF \E i \in 1..Len(parts) : IsThrown(parts[i])
                THEN Thrown("TypeError")
                ELSE Str(JoinComma([i \in 1..Len(parts) |-> parts[i].s]))
      [] v.t = "object"    ->
            IF HasOwn(v, "toString") THEN Thrown("TypeError")
            ELSE Str(<<"[", "o", "b", "j", "e", "c", "t", " ", "O", "b", "j", "e", "c", "t", "]">>)

\* StringToNumber of a trimmed string: the numerals [+-]digits[.0|.5] (the
\* numbers the model represents), "Infinity", and the empty string; any
\* other string is NaN.
RECURSIVE DigitsValue(_)
DigitsValue(cs) ==
    IF cs = <<>> THEN 0
    ELSE 10 * DigitsValue(SubSeq(cs, 1, Len(cs) - 1)) + DigitValue(cs[Len(cs)])

AllDigits(cs) == cs # <<>> /\ \A i \in 1..Len(cs) : cs[i] \in DigitChars

UnsignedToNumber(cs) ==
    IF cs = <<"I", "n", "f", "i", "n", "i", "t", "y">> THEN Inf(1)
    ELSE IF AllDigits(cs) THEN Num(Halves(DigitsValue(cs)))
    ELSE IF Len(cs) >= 3 /\ cs[Len(cs) - 1] = "." /\ cs[Len(cs)] \in {"0", "5"}
            /\ AllDigits(SubSeq(cs, 1, Len(cs) - 2))
         THEN Num(Halves(DigitsValue(SubSeq(cs, 1, Len(cs) - 2)))
                  + (IF cs[Len(cs)] = "5" THEN 1 ELSE 0))
    ELSE NaN

Negate(v) == CASE v.t = "number"   -> Num(0 - v.n)
               [] v.t = "infinity" -> Inf(0 - v.n)
               [] OTHER            -> v

StringToNumber(cs) ==
    LET t == trim(cs)
    IN  IF t = <<>> THEN Num(0)
        ELSE IF Head(t) = "-" THEN Negate(UnsignedToNumber(Tail(t)))
        ELSE IF Head(t) = "+" THEN UnsignedToNumber(Tail(t))
        ELSE UnsignedToNumber(t)

\* Number(v): a number, an infinity, NaN, or Thrown("TypeError")
Number(v) ==
    CASE v.t = "undefined" -> NaN
      [] v.t = "null"      -> Num(0)
      [] v.t = "boolean"   -> Num(Halves(v.n))
      [] v.t \in {"number", "infinity", "nan"} -> v
      [] v.t = "string"    -> StringToNumber(v.s)
      [] v.t \in {"array", "object"} ->
            LET p == String(v)
            IN  IF IsThrown(p) THEN p ELSE StringToNumber(p.s)

\* Number.isFinite
isFinite(v) == v.t = "number"

\* Array.isArray
isArray(v) == v.t = "array"

\* the property read v.key: a TypeError on null and undefined, the last
\* entry of that name in an object decoded from JSON, undefined otherwise
\* (none of the names read here is a property of a string, number, boolean
\* or array)
Get(v, key) ==
    IF v.t \in {"null", "undefined"} THEN Thrown("TypeError")
    ELSE IF v.t = "object" /\ HasOwn(v, key)
         THEN LET i == CHOOSE j \in 1..Len(v.a) :
                          /\ v.a[j].key = key
                          /\ \A k \in (j + 1)..Len(v.a) : v.a[k].key # key
              IN  v.a[i].val
    ELSE Undefined

(***************************************************************************)
(* The completion content and JSON.parse                                   *)
(*                                                                         *)
(* A non-empty completion text is represented by what JSON.parse makes of  *)
(* it: JsonText(v) is a text that is the JSON serialisation of v, NotJson  *)
(* a text that is not JSON.  The content may also be undefined, null or    *)
(* the empty string.                                                       *)
(***************************************************************************)
JsonText(v) == V("text", 1, <<>>, <<v>>)
NotJson     == V("text", 0, <<>>, <<>>)

JSONparse(text) ==
    IF text.t = "text" /\ text.n = 1 THEN text.a[1] ELSE Thrown("SyntaxError")


(***************************************************************************)
(* llmScore after the completion has resolved (lines 81-101 and 316-327)   *)
(***************************************************************************)
\* completion.choices?.[0]?.message?.content || "{}"
ContentOrEmptyObject(content) == OrElse(content, JsonText(Obj(<<>>)))

\* the fallback of the catch clause: { score: 1, bullets: [] }
ScoreFallback ==
    Obj(<<Entry("score", Num(Halves(1))), Entry("bullets", Arr(<<>>))>>)

\* try { parsed = JSON.parse(content) } catch { parsed = { score: 1, bullets: [] } }
ScoreDecode(content) ==
    LET p == JSONparse(ContentOrEmptyObject(content))
    IN  IF IsThrown(p) THEN ScoreFallback ELSE p

\* variant 1: if (score < 1) score = 1; if (score > 5) score = 5;
ClampIf(h) ==
    LET a == IF h < Halves(1) THEN Halves(1) ELSE h
    IN  IF a > Halves(5) THEN Halves(5) ELSE a

Max(a, b) == IF a > b THEN a ELSE b
Min(a, b) == IF a < b THEN a ELSE b

\* variant 2: score = Math.min(5, Math.max(1, score));
ClampMinMax(h) == Min(Halves(5), Max(Halves(1), h))

Clamp(variant, h) == IF variant = 1 THEN ClampIf(h) ELSE ClampMinMax(h)

\* let score = Number(parsed.score); if (!Number.isFinite(score)) score = 1;
\* then the clamp.  The result is in halves, or Thrown.
ScoreOf(variant, parsed) ==
    LET raw == Get(parsed, "score")
        num == IF IsThrown(raw) THEN raw ELSE Number(raw)
    IN  IF IsThrown(num) THEN num
        ELSE Num(Clamp(variant, IF isFinite(num) THEN num.n ELSE Halves(1)))

\* xs.map(String): every element is converted before the slice is taken
MapString(xs) == [i \in 1..Len(xs) |-> String(xs[i])]

AnyThrown(vs) == \E i \in 1..Len(vs) : IsThrown(vs[i])

\* Array.isArray(parsed.bullets) ? parsed.bullets.map(String).slice(0, 5) : []
BulletsOf(parsed) ==
    LET raw == Get(parsed, "bullets")
    IN  IF IsThrown(raw) THEN raw
        ELSE IF ~isArray(raw) THEN Arr(<<>>)
        ELSE LET m == MapString(raw.a)
             IN  IF AnyThrown(m) THEN Thrown("TypeError") ELSE Arr(slice(m, 5))

\* the mutant of GateBullets: the gate compares with 3 instead of 4
GateBulletsAtThree(score, bullets) ==
    IF score.n <= Halves(3) THEN Arr(<<>>) ELSE bullets

\* if (score < 4) bullets = [];
GateBullets(score, bullets) == IF score.n < Halves(4) THEN Arr(<<>>) ELSE bullets

ScoreResult(score, bullets) == [t |-> "ok", score |-> score, bullets |-> bullets]
Raised(name) == [t |-> "throw", score |-> Thrown(name), bullets |-> Thrown(name)]

\* the value llmScore returns for a completion content, or the exception
\* it raises
llmScore(variant, content) ==
    LET parsed  == ScoreDecode(content)
        score   == ScoreOf(variant, parsed)
        bullets == IF IsThrown(score) THEN score ELSE BulletsOf(parsed)
    IN  IF IsThrown(score) \/ IsThrown(bullets) THEN Raised("TypeError")
        ELSE ScoreResult(score, GateBullets(score, bullets))

(***************************************************************************)
(* /generate-filters after the completion has resolved                     *)
(* (lines 186-213 and 399-423)                                             *)
(***************************************************************************)
\* try { payload = JSON.parse(content || "{}") } catch { payload = {} }
FiltersDecode(content) ==
    LET p == JSONparse(ContentOrEmptyObject(content))
    IN  IF IsThrown(p) THEN Obj(<<>>) ELSE p

\* xs.filter(Boolean) over strings
RECURSIVE FilterBoolean(_)
FilterBoolean(xs) ==
    IF xs = <<>> THEN <<>>
    ELSE (IF Truthy(Head(xs)) THEN <<Head(xs)>> ELSE <<>>) \o FilterBoolean(Tail(xs))

\* String(v).trim()
StringTrim(v) ==
    LET c == String(v) IN IF IsThrown(c) THEN c ELSE Str(trim(c.s))

\* the mutant of normArr: the elements are not trimmed
normArrNoTrim(x) ==
    IF ~isArray(x) THEN Arr(<<>>)
    ELSE LET m == MapString(x.a)
         IN  IF AnyThrown(m) THEN Thrown("TypeError") ELSE Arr(FilterBoolean(m))

\* const normArr = (x) => Array.isArray(x) ? x.map(v => String(v).trim()).filter(Boolean) : [];
normArr(x) ==
    IF ~isArray(x) THEN Arr(<<>>)
    ELSE LET m == [i \in 1..Len(x.a) |-> StringTrim(x.a[i])]
         IN  IF AnyThrown(m) THEN Thrown("TypeError") ELSE Arr(FilterBoolean(m))

\* the length bounds of the six sequence fields
SeqFields ==
    {"job_titles", "skills", "locations", "keywords", "industries", "years_experience"}

BoolFields == {"boolean_titles", "boolean_keywords"}

FieldBound(f) ==
    CASE f = "job_titles" -> 16
      [] f = "skills" -> 24
      [] f = "locations" -> 8
      [] f = "keywords" -> 16
      [] f = "industries" -> 10
      [] f = "years_experience" -> 8

\* normArr(payload.f).slice(0, bound)
SeqField(payload, f) ==
    LET n == normArr(Get(payload, f))
    IN  IF IsThrown(n) THEN n ELSE Arr(slice(n.a, FieldBound(f)))

\* the mutant of BoolField: a value that is not a string becomes ""
BoolFieldStringsOnly(payload, f) ==
    IF Get(payload, f).t = "string" THEN Get(payload, f) ELSE Str(<<>>)

\* String(payload.f || "")
BoolField(payload, f) == String(OrElse(Get(payload, f), Str(<<>>)))

\* the body of the 200 response of /generate-filters for a completion
\* content, or the exception raised on the way
GenerateFilters(content) ==
    LET payload == FiltersDecode(content)
        body    == [f \in SeqFields \cup BoolFields |->
                       IF IsThrown(Get(payload, f)) THEN Get(payload, f)
                       ELSE IF f \in SeqFields THEN SeqField(payload, f)
                       ELSE BoolField(payload, f)]
    IN  IF \E f \in DOMAIN body : IsThrown(body[f])
        THEN [t |-> "throw", body |-> [f \in SeqFields \cup BoolFields |-> Undefined]]
        ELSE [t |-> "ok", body |-> body]


(***************************************************************************)
(* Request handling                                                        *)
(***************************************************************************)
VARIABLES
    variant,           \* 1: lines 1-224 (no access policy), 2: lines 226-433
    INTERNAL_API_KEY,  \* process.env.INTERNAL_API_KEY: undefined or a string
    hits,              \* the rate limiter's counter of each client in the current window
    pc,                \* "idle", or the await the request in flight is suspended at
    req,               \* the request in flight, or the last one answered
    resumeText,        \* the handler's local resumeText across the extraction await
    calls,             \* what ran for req: limiter, handler, extraction, completion
    err,               \* the exception the route's catch clause received for req
    res,               \* the response sent for req
    task,              \* SpecValidate: the task whose decode/validate step ran
    content,           \* SpecValidate: the completion content it ran on
    out                \* SpecValidate: what it returned

vars == <<variant, INTERNAL_API_KEY, hits, pc, req, resumeText, calls, err, res,
          task, content, out>>

serverVars == <<variant, INTERNAL_API_KEY, hits, pc, req, resumeText, calls, err, res>>
validateVars == <<task, content, out>>

\* windowMs: 60_000, max: 120
windowMs == 60000
max == 120

\* the counter of a client is followed up to max + 1, the first rejected hit
MaxHits == 121

Clients == {"ip1"}

\* function cleanText(text) { return (text || "").replace(/\s+/g, " ").trim(); }
\* A truthy value that is not a string has no replace method: TypeError.
cleanText(text) ==
    LET x == OrElse(text, Str(<<>>))
    IN  IF x.t = "string" THEN Str(trim(CollapseWs(x.s))) ELSE Thrown("TypeError")

\* an exception as the catch clauses read it: err.status, err.message, err.error
Error(status, message, error) == [status |-> status, message |-> message, error |-> error]
NoError   == Error(0, <<>>, Undefined)
TypeError == Error(0, <<"TypeError">>, Undefined)

NoFilters == [f \in SeqFields \cup BoolFields |-> Undefined]

Response(status, kind, error, score, bullets, filters) ==
    [status |-> status, kind |-> kind, error |-> error,
     score |-> score, bullets |-> bullets, filters |-> filters]

NoResponse == Response(0, "none", Undefined, Undefined, Undefined, NoFilters)

\* res.status(s).json({ error: message })
ErrorResponse(status, message) ==
    Response(status, "error", message, Undefined, Undefined, NoFilters)

\* res.json({ score, score_out_of: 5, bullets })
ScoreResponse(r) == Response(200, "score", Undefined, r.score, r.bullets, NoFilters)

\* res.json({ job_titles, boolean_titles, ... })
FiltersResponse(body) == Response(200, "filters", Undefined, Undefined, Undefined, body)

\* the mutant of HealthResponse: the probe reports the service unavailable
HealthResponseUnavailable ==
    Response(503, "error", Str(<<"Service unavailable">>), Undefined, Undefined, NoFilters)

\* res.json({ ok: true })
HealthResponse == Response(200, "health", Undefined, Undefined, Undefined, NoFilters)

InternalServerError == Str(<<"Internal server error">>)
MissingJobDescription == Str(<<"Missing jobDescription">>)
MissingResumeText == Str(<<"Missing resume text (provide resumeText or resumeFile)">>)

\* `Upstream error ${err.status}: ${err.message}`
UpstreamMessage(e) == Str(<<"Upstream error ">> \o Digits(e.status) \o <<": ">> \o e.message)

\* err.error?.message
ErrorBodyMessage(e) ==
    IF e.error.t \in {"undefined", "null"} THEN Undefined ELSE Get(e.error, "message")

\* the catch clause of /score-candidate (lines 130-137 and 347-352)
ScoreCatchMessage(e) ==
    IF e.status # 0 THEN UpstreamMessage(e)
    ELSE OrElse(ErrorBodyMessage(e), InternalServerError)

\* the catch clause of /generate-filters (lines 214-217 and 424-427)
FiltersCatchMessage(e) == InternalServerError

\* a request: its route, the client's address, the x-api-key header, the two
\* body fields and whether a resumeFile is uploaded
Request(endpoint, client, key, jobDescription, text, file) ==
    [endpoint |-> endpoint, client |-> client, key |-> key,
     jobDescription |-> jobDescription, resumeText |-> text, file |-> file]

NoRequest == Request("none", "ip1", Undefined, Undefined, Undefined, FALSE)

\* what has run for the request: the rate limiter (and the hit count it
\* compared with max), the route, and the number of extractions and
\* completions requested
NoCalls == [limiter |-> FALSE, hit |-> 0, handler |-> FALSE, extract |-> 0, llm |-> 0]

\* the mutant of SharedSecretRejects: a request without the header passes
SharedSecretRejectsPresentKey(r) ==
    /\ variant = 2
    /\ Truthy(INTERNAL_API_KEY)
    /\ Truthy(r.key)
    /\ r.key # INTERNAL_API_KEY

\* the shared-secret middleware rejects (lines 244-250)
SharedSecretRejects(r) ==
    /\ variant = 2
    /\ Truthy(INTERNAL_API_KEY)
    /\ r.key # INTERNAL_API_KEY

\* rateLimit({ windowMs, max }): the package's store counts the hit of the
\* client in the current window, and the request is rejected when the count
\* exceeds max
RateLimitRejects(r) == variant = 2 /\ hits[r.client] + 1 > max

CountHit(r) ==
    IF variant = 2 THEN [hits EXCEPT ![r.client] = @ + 1] ELSE hits

\* the bookkeeping of a request that has passed the rate limiter (variant 2)
Limited(r) ==
    IF variant = 2
    THEN [NoCalls EXCEPT !.limiter = TRUE, !.hit = hits[r.client] + 1]
    ELSE NoCalls

\* the request passes both middlewares and reaches its route
Admitted(r) ==
    /\ pc = "idle"
    /\ ~SharedSecretRejects(r)
    /\ variant = 2 => hits[r.client] < MaxHits
    /\ ~RateLimitRejects(r)

Begin(r) ==
    /\ req' = r
    /\ err' = NoError
    /\ UNCHANGED <<variant, INTERNAL_API_KEY, validateVars>>


\* the response has been sent: nothing of the request outlives it but the
\* rate limiter's counters
Finish ==
    /\ pc = "sent"
    /\ pc' = "idle"
    /\ req' = NoRequest
    /\ resumeText' = Str(<<>>)
    /\ calls' = NoCalls
    /\ err' = NoError
    /\ res' = NoResponse
    /\ UNCHANGED <<variant, INTERNAL_API_KEY, hits, validateVars>>

\* lines 244-248: a configured secret and a different (or absent) x-api-key
Unauthorized(r) ==
    /\ pc = "idle"
    /\ SharedSecretRejects(r)
    /\ Begin(r)
    /\ res' = ErrorResponse(401, Str(<<"Unauthorized">>))
    /\ calls' = NoCalls
    /\ pc' = "sent"
    /\ UNCHANGED <<hits, resumeText>>

\* lines 252-259: the hit is counted and exceeds max
RateLimited(r) ==
    /\ pc = "idle"
    /\ ~SharedSecretRejects(r)
    /\ variant = 2
    /\ hits[r.client] < MaxHits
    /\ RateLimitRejects(r)
    /\ Begin(r)
    /\ hits' = CountHit(r)
    /\ res' = ErrorResponse(429, Str(<<"Too many requests, please try again later.">>))
    /\ calls' = Limited(r)
    /\ pc' = "sent"
    /\ UNCHANGED resumeText

\* the window of a client expires and its counter starts again
WindowReset(c) ==
    /\ hits[c] > 0
    /\ hits' = [hits EXCEPT ![c] = 0]
    /\ UNCHANGED <<variant, INTERNAL_API_KEY, pc, req, resumeText, calls, err, res,
                   validateVars>>

\* app.get("/health", ...) (lines 140-142 and 355-357)
GetHealth(r) ==
    /\ r.endpoint = "health"
    /\ Admitted(r)
    /\ Begin(r)
    /\ hits' = CountHit(r)
    /\ calls' = [Limited(r) EXCEPT !.handler = TRUE]
    /\ res' = HealthResponse
    /\ pc' = "sent"
    /\ UNCHANGED resumeText

\* the mutant of ScoreRoute: the uploaded file is extracted before the
\* jobDescription check
ScoreRouteExtractFirst(jobDescription, text, file) ==
    IF IsThrown(jobDescription) \/ IsThrown(text) THEN "throw"
    ELSE IF file THEN "extract"
    ELSE IF ~Truthy(jobDescription) THEN "missingJobDescription"
    ELSE IF ~Truthy(text) THEN "missingResume"
    ELSE "llm"

\* where /score-candidate goes once both body fields are normalized: the
\* jobDescription check (110), the file branch (114), the resume check (119)
\* and the call of llmScore (123); lines 336-345 in variant 2
ScoreRoute(jobDescription, text, file) ==
    IF IsThrown(jobDescription) \/ IsThrown(text) THEN "throw"
    ELSE IF ~Truthy(jobDescription) THEN "missingJobDescription"
    ELSE IF file THEN "extract"
    ELSE IF ~Truthy(text) THEN "missingResume"
    ELSE "llm"

\* app.post("/score-candidate", ...) up to its first await or its response
\* (lines 105-123 and 331-345)
PostScoreCandidate(r) ==
    /\ r.endpoint = "score"
    /\ Admitted(r)
    /\ hits' = CountHit(r)
    /\ req' = r
    /\ UNCHANGED <<variant, INTERNAL_API_KEY, validateVars>>
    /\ LET jobDescription == cleanText(OrElse(r.jobDescription, Str(<<>>)))
           text  == cleanText(OrElse(r.resumeText, Str(<<>>)))
           route == ScoreRoute(jobDescription, text, r.file)
           ran   == [Limited(r) EXCEPT !.handler = TRUE]
       IN  CASE route = "throw" ->
                  /\ err' = TypeError
                  /\ res' = ErrorResponse(500, ScoreCatchMessage(TypeError))
                  /\ calls' = ran
                  /\ pc' = "sent"
                  /\ UNCHANGED resumeText
             [] route = "missingJobDescription" ->
                  /\ err' = NoError
                  /\ res' = ErrorResponse(400, MissingJobDescription)
                  /\ calls' = ran
                  /\ pc' = "sent"
                  /\ UNCHANGED resumeText
             [] route = "extract" ->
                  /\ err' = NoError
                  /\ res' = NoResponse
                  /\ calls' = [ran EXCEPT !.extract = @ + 1]
                  /\ pc' = "extract"
                  /\ resumeText' = text
             [] route = "missingResume" ->
                  /\ err' = NoError
                  /\ res' = ErrorResponse(400, MissingResumeText)
                  /\ calls' = ran
                  /\ pc' = "sent"
                  /\ UNCHANGED resumeText
             [] route = "llm" ->
                  /\ err' = NoError
                  /\ res' = NoResponse
                  /\ calls' = [ran EXCEPT !.llm = @ + 1]
                  /\ pc' = "llm"
                  /\ resumeText' = text

\* pdfParse resolves: lines 25-26 and 116-123 (270-271 and 340-345)
ExtractResolved(dataText) ==
    /\ pc = "extract"
    /\ LET pdfText == cleanText(OrElse(dataText, Str(<<>>)))
           text == cleanText(Str(resumeText.s \o <<"\n">> \o pdfText.s))
       IN  IF ~Truthy(text)
           THEN /\ pc' = "sent"
                /\ res' = ErrorResponse(400, MissingResumeText)
                /\ UNCHANGED <<resumeText, calls>>
           ELSE /\ pc' = "llm"
                /\ resumeText' = text
                /\ calls' = [calls EXCEPT !.llm = @ + 1]
                /\ UNCHANGED res
    /\ UNCHANGED <<variant, INTERNAL_API_KEY, hits, req, err, validateVars>>

\* pdfParse rejects: the route's catch clause answers
ExtractRejected(e) ==
    /\ pc = "extract"
    /\ pc' = "sent"
    /\ err' = e
    /\ res' = ErrorResponse(500, ScoreCatchMessage(e))
    /\ UNCHANGED <<variant, INTERNAL_API_KEY, hits, req, resumeText, calls, validateVars>>

\* app.post("/generate-filters", ...) up to its await or its response
\* (lines 167-184 and 382-397)
PostGenerateFilters(r) ==
    /\ r.endpoint = "filters"
    /\ Admitted(r)
    /\ hits' = CountHit(r)
    /\ req' = r
    /\ UNCHANGED <<variant, INTERNAL_API_KEY, resumeText, validateVars>>
    /\ LET jobDescription == cleanText(OrElse(r.jobDescription, Str(<<>>)))
           ran == [Limited(r) EXCEPT !.handler = TRUE]
       IN  IF IsThrown(jobDescription)
           THEN /\ err' = TypeError
                /\ res' = ErrorResponse(500, FiltersCatchMessage(TypeError))
                /\ calls' = ran
                /\ pc' = "sent"
           ELSE IF ~Truthy(jobDescription)
           THEN /\ res' = ErrorResponse(400, MissingJobDescription)
                /\ calls' = ran
                /\ err' = NoError
                /\ pc' = "sent"
           ELSE /\ pc' = "llm"
                /\ calls' = [ran EXCEPT !.llm = @ + 1]
                /\ res' = NoResponse
                /\ err' = NoError

\* client.chat.completions.create resolves: decode, validate, respond
CompletionResolved(c) ==
    /\ pc = "llm"
    /\ pc' = "sent"
    /\ IF req.endpoint = "score"
       THEN LET r == llmScore(variant, c)
            IN  IF r.t = "throw"
                THEN /\ err' = TypeError
                     /\ res' = ErrorResponse(500, ScoreCatchMessage(TypeError))
                ELSE /\ err' = NoError
                     /\ res' = ScoreResponse(r)
       ELSE LET r == GenerateFilters(c)
            IN  IF r.t = "throw"
                THEN /\ err' = TypeError
                     /\ res' = ErrorResponse(500, FiltersCatchMessage(TypeError))
                ELSE /\ err' = NoError
                     /\ res' = FiltersResponse(r.body)
    /\ UNCHANGED <<variant, INTERNAL_API_KEY, hits, req, resumeText, calls, validateVars>>

\* client.chat.completions.create rejects: the route's catch clause answers
CompletionRejected(e) ==
    /\ pc = "llm"
    /\ pc' = "sent"
    /\ err' = e
    /\ res' = ErrorResponse(500, IF req.endpoint = "score"
                                 THEN ScoreCatchMessage(e)
                                 ELSE FiltersCatchMessage(e))
    /\ UNCHANGED <<variant, INTERNAL_API_KEY, hits, req, resumeText, calls, validateVars>>


(***************************************************************************)
(* Inputs of the request flow                                              *)
(***************************************************************************)
Secrets == {Undefined, Str(<<>>), Str(<<"k">>)}
Keys    == {Undefined, Str(<<"k">>), Str(<<"x">>)}

\* jobDescription: absent, blank, a text, and a JSON number (a truthy value
\* that is not a string)
JobDescriptions == {Undefined, Str(<<" ", "\n">>), Str(<<" ", "j", " ", " ", "d", " ">>), Num(Halves(5))}

\* resumeText: absent, blank, a text, and an array (a repeated form field)
ResumeTexts == {Undefined, Str(<<" ">>), Str(<<"c", "\n", "v">>), Arr(<<Str(<<"c">>), Str(<<"v">>)>>)}

\* data.text of a parsed document: absent, blank (an image-only PDF), a text
PdfTexts == {Undefined, Str(<<" ", "\n">>), Str(<<" ", "p", " ", " ", "d", " ", "f">>)}

Requests ==
    {Request("health", c, k, Undefined, Undefined, FALSE) : c \in Clients, k \in Keys}
    \cup {Request("filters", c, k, jd, Undefined, FALSE) :
            c \in Clients, k \in Keys, jd \in JobDescriptions}
    \cup {Request("score", ck[1], ck[2], jt[1], jt[2], f) :
            ck \in Clients \X Keys, jt \in JobDescriptions \X ResumeTexts, f \in BOOLEAN}

\* what the provider's client and pdf-parse reject with
ProviderBody == Obj(<<Entry("message", Str(<<"provider detail">>))>>)

LlmErrors ==
    {Error(401, <<"Incorrect API key provided">>, ProviderBody),
     Error(429, <<"Rate limit reached">>, ProviderBody),
     Error(0, <<"Connection error.">>, Undefined),
     Error(0, <<"Request failed">>, ProviderBody)}

ExtractErrors == {Error(0, <<"Invalid PDF structure">>, Undefined)}

A == Str(<<"a">>)
B == Str(<<"b">>)
C == Str(<<"c">>)

\* the completion contents of the end-to-end scenarios and of the decoder's
\* corner cases
ScenarioContents ==
    {Undefined,
     NotJson,
     JsonText(Null),
     JsonText(Arr(<<A>>)),
     JsonText(Obj(<<Entry("score", Num(9)), Entry("bullets", Arr(<<A, B, C>>))>>)),
     JsonText(Obj(<<Entry("score", Num(Halves(2))),
                    Entry("bullets", Arr(<<Str(<<"should not appear">>)>>))>>)),
     JsonText(Obj(<<Entry("skills", Str(<<"React">>))>>)),
     JsonText(Obj(<<Entry("skills", Arr(<<A, Str(<<" ", "b", " ">>), Str(<<>>)>>)),
                    Entry("boolean_titles", Str(<<"a OR b">>)),
                    Entry("boolean_keywords", Num(Halves(5)))>>))}

Init ==
    /\ variant \in {1, 2}
    /\ INTERNAL_API_KEY \in Secrets
    /\ hits = [c \in Clients |-> 0]
    /\ pc = "idle"
    /\ req = NoRequest
    /\ resumeText = Str(<<>>)
    /\ calls = NoCalls
    /\ err = NoError
    /\ res = NoResponse
    /\ task = "none"
    /\ content = Undefined
    /\ out = Raised("none")

Next ==
    \/ \E r \in Requests : Unauthorized(r)
    \/ \E r \in Requests : RateLimited(r)
    \/ \E c \in Clients : WindowReset(c)
    \/ \E r \in Requests : GetHealth(r)
    \/ \E r \in Requests : PostScoreCandidate(r)
    \/ \E t \in PdfTexts : ExtractResolved(t)
    \/ \E e \in ExtractErrors : ExtractRejected(e)
    \/ \E r \in Requests : PostGenerateFilters(r)
    \/ \E c \in ScenarioContents : CompletionResolved(c)
    \/ \E e \in LlmErrors : CompletionRejected(e)
    \/ Finish

Spec == Init /\ [][Next]_vars


(***************************************************************************)
(* SpecValidate: the decode/validate steps over a family of contents       *)
(***************************************************************************)
\* the largest score (in halves) and the longest arrays a content carries
MaxScoreHalves == 13
MaxBullets == 7
MaxItems == 25

\* an object decoded from {"toString": 1}: String() and Number() throw on it
ToStringObject == Obj(<<Entry("toString", Num(Halves(1)))>>)

\* the array of length n that repeats the elements of base in order
Cycle(base, n) == Arr([i \in 1..n |-> base[((i - 1) % Len(base)) + 1]])

ScoreValues ==
    {Num(h) : h \in (0 - 3)..MaxScoreHalves}
    \cup {Inf(1), Inf(0 - 1), Null, Bool(TRUE), Bool(FALSE),
          Str(<<"4", ".", "5">>), Str(<<" ", "5", " ">>), Str(<<"-", "2">>),
          Str(<<"a", "b", "c">>), Str(<<>>),
          Arr(<<>>), Arr(<<Num(Halves(5))>>), Arr(<<Num(Halves(4)), Num(Halves(5))>>),
          Obj(<<>>), ToStringObject}

BulletElements ==
    {A, Str(<<" ", "b">>), Num(9), Null, Obj(<<>>), Arr(<<A, Null, B>>), ToStringObject}

BulletValues ==
    {Cycle(<<x, y>>, n) : x \in {A, Num(9), Obj(<<>>)}, y \in BulletElements,
                          n \in 0..MaxBullets}
    \cup {A, Num(Halves(3)), Null, Obj(<<>>), Bool(TRUE)}

\* an object with the given entries, an undefined value meaning no entry
ObjectOf(es) == Obj(SelectSeq(es, LAMBDA e : e.val # Undefined))

\* contents that are not the serialisation of an object
OddContents ==
    {Undefined, Null, Str(<<>>), NotJson,
     JsonText(Null), JsonText(Num(Halves(5))), JsonText(Bool(TRUE)), JsonText(A),
     JsonText(Arr(<<>>)), JsonText(Arr(<<Num(Halves(5))>>))}

ScoreContents ==
    OddContents
    \cup {JsonText(ObjectOf(<<Entry("score", sv), Entry("bullets", bv)>>)) :
            sv \in ScoreValues \cup {Undefined}, bv \in BulletValues \cup {Undefined}}
    \cup {JsonText(Obj(<<Entry("score", Num(Halves(5))), Entry("bullets", Arr(<<A>>)),
                         Entry("score", Num(Halves(2)))>>))}

FilterElements ==
    {A, Str(<<" ", "b", " ", "c", "\n">>), Str(<<>>), Str(<<" ", "\t">>),
     Num(Halves(7)), Null, Arr(<<>>), ToStringObject}

FilterValues ==
    {Cycle(<<x, y>>, n) : x \in {A, Str(<<" ", "b", " ", "c", "\n">>), Str(<<>>)},
                          y \in FilterElements, n \in 0..MaxItems}
    \cup {Str(<<"React">>), Num(Halves(3)), Null, Obj(<<>>), Bool(TRUE)}

BooleanValues ==
    {Str(<<>>), Str(<<"a OR b">>), Str(<<" ", "a", " ">>), Null, Bool(TRUE), Bool(FALSE),
     Num(0), Num(Halves(5)), Num(0 - 3), Arr(<<>>), Arr(<<A, B>>), Obj(<<>>),
     ToStringObject}

FilterContents ==
    OddContents
    \cup {JsonText(Obj(<<Entry(f, v)>>)) : f \in SeqFields, v \in FilterValues}
    \cup {JsonText(Obj(<<Entry(f, v)>>)) : f \in BoolFields, v \in BooleanValues}
    \cup {JsonText(Obj(<<Entry("job_titles", v), Entry("boolean_titles", w),
                         Entry("skills", v), Entry("locations", v),
                         Entry("keywords", v), Entry("boolean_keywords", w),
                         Entry("industries", v), Entry("years_experience", v)>>)) :
            v \in {Cycle(<<A, Str(<<" ", "\t">>)>>, n) : n \in 0..MaxItems},
            w \in {Str(<<"a OR b">>), Num(Halves(5))}}

\* llmScore's decode and validate steps run on a content
ValidateScore(c) ==
    /\ task = "none"
    /\ task' = "score"
    /\ content' = c
    /\ out' = llmScore(variant, c)
    /\ UNCHANGED serverVars

\* the decode and validate steps of /generate-filters run on a content
ValidateFilters(c) ==
    /\ task = "none"
    /\ task' = "filters"
    /\ content' = c
    /\ out' = GenerateFilters(c)
    /\ UNCHANGED serverVars

InitValidate ==
    /\ Init
    /\ INTERNAL_API_KEY = Undefined

NextValidate ==
    \/ \E c \in ScoreContents : ValidateScore(c)
    \/ \E c \in FilterContents : ValidateFilters(c)

SpecValidate == InitValidate /\ [][NextValidate]_vars


(***************************************************************************)
(* Properties                                                              *)
(***************************************************************************)
\* the value of an entry of the JSON object a content serialises, undefined
\* when the content is no such object or the object has no such entry
Upstream(c, key) ==
    IF c.t = "text" /\ c.n = 1 /\ c.a[1].t = "object" THEN Get(c.a[1], key)
    ELSE Undefined

IsTrimmedText(v) ==
    /\ v.t = "string"
    /\ v.s # <<>>
    /\ Head(v.s) \notin WS
    /\ v.s[Len(v.s)] \notin WS

\* C1: whatever the completion content (score negative, not a number,
\* absent, not numeric, infinite or above 5; bullets of any type and
\* length), a result returned by llmScore has 1 <= score <= 5, at most 5
\* bullets, all of them strings, and no bullets when score < 4.  (Scores
\* are in halves: 2 is 1, 8 is 4, 10 is 5.)
C1_ScoreContract ==
    (task = "score" /\ out.t = "ok") =>
        /\ out.score.t = "number"
        /\ 2 <= out.score.n /\ out.score.n <= 10
        /\ out.bullets.t = "array"
        /\ Len(out.bullets.a) <= 5
        /\ \A i \in 1..Len(out.bullets.a) : out.bullets.a[i].t = "string"
        /\ (out.score.n < 8 => out.bullets.a = <<>>)

\* a score of 3.5 with seven bullets upstream: the gate has emptied them
C1_Witness ==
    /\ task = "score" /\ out.t = "ok"
    /\ Upstream(content, "score") = Num(7)
    /\ Upstream(content, "bullets").t = "array"
    /\ Len(Upstream(content, "bullets").a) = 7
    /\ out.score = Num(7)
    /\ out.bullets.a = <<>>

\* the bound the specification documents for each sequence field
DocumentedBound(f) ==
    CASE f = "job_titles" -> 16
      [] f = "skills" -> 24
      [] f = "locations" -> 8
      [] f = "keywords" -> 16
      [] f = "industries" -> 10
      [] f = "years_experience" -> 8

\* C2: in a /generate-filters response body each of the six sequence fields
\* is an array no longer than its documented bound, every element of it is
\* a non-empty string without leading or trailing whitespace, and it is the
\* empty array when the upstream value is absent or is not an array.
C2_FilterSequences ==
    (task = "filters" /\ out.t = "ok") =>
        \A f \in SeqFields :
            /\ out.body[f].t = "array"
            /\ Len(out.body[f].a) <= DocumentedBound(f)
            /\ \A i \in 1..Len(out.body[f].a) : IsTrimmedText(out.body[f].a[i])
            /\ (Upstream(content, f).t # "array" => out.body[f].a = <<>>)

\* 25 skills upstream, every second one padded with whitespace: 24 are
\* returned, trimmed
C2_Witness ==
    /\ task = "filters" /\ out.t = "ok"
    /\ Upstream(content, "skills").t = "array"
    /\ Len(Upstream(content, "skills").a) = 25
    /\ \E i \in 1..25 : ~IsTrimmedText(Upstream(content, "skills").a[i])
    /\ Len(out.body["skills"].a) = 24

\* the normalized jobDescription of a request is the empty string
JobDescriptionMissing(r) ==
    LET x == OrElse(r.jobDescription, Str(<<>>))
    IN  x.t = "string" /\ trim(CollapseWs(x.s)) = <<>>

\* C3 (as claimed): a request to /score-candidate or /generate-filters that
\* reaches its route with a missing or blank jobDescription is answered with
\* 400 "Missing jobDescription", and no completion is requested for it.
C3_MissingJobDescription400 ==
    (pc = "sent" /\ calls.handler /\ req.endpoint \in {"score", "filters"}
        /\ JobDescriptionMissing(req)) =>
        /\ res.status = 400
        /\ res.error = MissingJobDescription
        /\ calls.llm = 0

\* C4 (as claimed): whatever the completion content, the decode step hands
\* the validator an object and neither step raises.
C4_DecodeValidateNeverRaise ==
    /\ task = "score" => ScoreDecode(content).t = "object" /\ out.t = "ok"
    /\ task = "filters" => FiltersDecode(content).t = "object" /\ out.t = "ok"

\* C5 (as claimed): a request answered with 400 or 401 has invoked neither
\* the text extraction nor the completion.
C5_NoExternalCallBeforeRejection ==
    (pc = "sent" /\ res.status \in {400, 401}) =>
        calls.extract = 0 /\ calls.llm = 0

\* C5 (amended): a request answered with 400 or 401 has requested no
\* completion; one answered with 401 has reached neither the rate limiter,
\* nor a route, nor the extraction; one answered with 400 has invoked the
\* extraction exactly when it uploaded a file and its jobDescription is not
\* empty (the missing-resume rejection comes after the extraction).
C5_Amended ==
    (pc = "sent" /\ res.status \in {400, 401}) =>
        /\ calls.llm = 0
        /\ res.status = 401 =>
              calls.extract = 0 /\ ~calls.handler /\ ~calls.limiter
        /\ res.status = 400 =>
              calls.extract = (IF req.file /\ ~JobDescriptionMissing(req) THEN 1 ELSE 0)

\* a missing-resume rejection that came after an extraction
C5_Witness ==
    /\ pc = "sent"
    /\ res.status = 400
    /\ res.error = MissingResumeText
    /\ calls.extract = 1
    /\ calls.llm = 0

\* C6 (as claimed): on both routes a completion that fails with a status
\* and a message is answered with 500 and an error that carries both.
C6_UpstreamErrorSurfaced ==
    (pc = "sent" /\ err.status # 0) =>
        /\ res.status = 500
        /\ res.error = Str(<<"Upstream error ">> \o Digits(err.status)
                              \o <<": ">> \o err.message)

\* C7: in the variant with the access policy, while a non-empty secret is
\* configured a request whose x-api-key is absent or different is answered
\* with 401 and reaches neither the rate limiter nor a route; while no
\* secret is configured (unset or empty) no request is answered with 401.
C7_SharedSecret ==
    (variant = 2 /\ req.endpoint # "none") =>
        /\ (Truthy(INTERNAL_API_KEY) /\ req.key # INTERNAL_API_KEY) =>
              /\ pc = "sent"
              /\ res.status = 401
              /\ ~calls.limiter /\ ~calls.handler
              /\ calls.extract = 0 /\ calls.llm = 0
        /\ ~Truthy(INTERNAL_API_KEY) => res.status # 401

\* a request without the header is rejected while the client already has
\* hits counted, and no route ran
C7_Witness ==
    /\ variant = 2
    /\ pc = "sent"
    /\ Truthy(INTERNAL_API_KEY)
    /\ req.key = Undefined
    /\ req.endpoint = "score"
    /\ res.status = 401
    /\ hits[req.client] > 0
    /\ ~calls.handler

\* C9 (as claimed): a GET /health request is answered with 200 {ok: true}.
C9_HealthNeverFails ==
    (pc = "sent" /\ req.endpoint = "health") =>
        res.status = 200 /\ res.kind = "health"

\* C9 (amended): a GET /health request invokes neither the extraction nor
\* the completion and is answered synchronously; it is answered with
\* 200 {ok: true} unless the access policy of variant 2 rejects it: with 401
\* when a secret is configured and the x-api-key differs, with 429 when the
\* client's hits exceed the quota.
C9_Amended ==
    (req.endpoint = "health") =>
        /\ pc = "sent"
        /\ calls.extract = 0 /\ calls.llm = 0
        /\ \/ res.status = 200 /\ res.kind = "health" /\ calls.handler
           \/ /\ res.status = 401
              /\ variant = 2 /\ Truthy(INTERNAL_API_KEY) /\ req.key # INTERNAL_API_KEY
           \/ /\ res.status = 429
              /\ variant = 2 /\ calls.hit > 120
        /\ (variant = 1 \/ ~Truthy(INTERNAL_API_KEY) \/ req.key = INTERNAL_API_KEY)
              /\ calls.hit <= 120
           => res.status = 200

\* the 120th hit of the window is a health request with the right key: 200
C9_Witness ==
    /\ pc = "sent"
    /\ req.endpoint = "health"
    /\ variant = 2
    /\ Truthy(INTERNAL_API_KEY)
    /\ calls.hit = 120
    /\ res.status = 200

=============================================================================
